---- MODULE Spec2Model ----
(***************************************************************************)
(* A model of azusa.query._database: the per-identity Database registry    *)
(* (Database.__new__ / __init__), statement execution under a connection   *)
(* lease (Database.fetch_raw), the type mapper (map_type_code) and the     *)
(* typed materialization of a result (Database.fetch).                     *)
(*                                                                         *)
(* Python's None is written None; a polars data type is written by its     *)
(* class name ("Int64", "String", ...); a value of a result row is a pair  *)
(* <<python type, value>>.                                                 *)
(***************************************************************************)
EXTENDS Naturals, Integers, Sequences, FiniteSets, TLC

\* ------------------------------------------------------------------ bounds

\* Number of caller threads.
NumThreads == 2
\* Number of Database(...) calls the callers make in one run.
MaxCalls == 3
\* Largest driver type code drawn as an input of map_type_code.
MaxTypeCode == 255

\* ------------------------------------------------------------- value sets

None == "None"

Threads == 1..NumThreads

\* The identities callers ask for: each project's own database, and the
\* termstore extension database of wikidatawiki.
Identities ==
    {<<"zhwiki", None>>, <<"wikidatawiki", None>>, <<"wikidatawiki", "termstore">>}

StrModes == {"str", "bytes", "guess"}
TypeCodes == 0..MaxTypeCode

\* ------------------------------------------------------------ type mapper

\* The keys of `mapping` whose value is the marker "STR_TYPE".
StrTypeCodes == {247, 248, 249, 250, 252, 253}

\* (mutant) the table without its entry for code 8, and 7 and 10 exchanged
mapping_get_shifted(code) ==
    CASE code \in {1, 2, 3} -> "Int64"
      [] code \in {4, 5} -> "Float64"
      [] code = 6 -> "Null"
      [] code = 7 -> "Date"
      [] code = 10 -> "Datetime"
      [] code = 246 -> "Decimal"
      [] code \in StrTypeCodes -> "STR_TYPE"
      [] OTHER -> "Unknown"

\* (mutant) mapping[code] in place of mapping.get(code, Unknown): a KeyError
\* for a code that is no key
mapping_get_subscript(code) ==
    CASE code \in {1, 2, 3, 8} -> "Int64"
      [] code \in {4, 5} -> "Float64"
      [] code = 6 -> "Null"
      [] code = 7 -> "Datetime"
      [] code = 10 -> "Date"
      [] code = 246 -> "Decimal"
      [] code \in StrTypeCodes -> "STR_TYPE"
      [] OTHER -> "KeyError"

\* The lookup table of map_type_code, with .get's default for absent keys.
mapping_get(code) ==
    CASE code \in {1, 2, 3, 8} -> "Int64"
      [] code \in {4, 5} -> "Float64"
      [] code = 6 -> "Null"
      [] code = 7 -> "Datetime"
      [] code = 10 -> "Date"
      [] code = 246 -> "Decimal"
      [] code \in StrTypeCodes -> "STR_TYPE"
      [] OTHER -> "Unknown"

\* (mutant) the two cases of the match exchanged
match_str_mode_swapped(str_mode) ==
    CASE str_mode = "str" -> "Binary"
      [] str_mode = "bytes" -> "String"
      [] OTHER -> "Unknown"

\* The match statement on str_mode, reached for a "STR_TYPE" entry.
match_str_mode(str_mode) ==
    CASE str_mode = "str" -> "String"
      [] str_mode = "bytes" -> "Binary"
      [] OTHER -> "Unknown"

map_type_code(code, str_mode) ==
    LET result == mapping_get(code)
    IN  IF result # "STR_TYPE" THEN result ELSE match_str_mode(str_mode)

\* The str_mode parameter's default: a call that passes no mode uses "guess".
Omitted == "omitted"
str_mode_default(arg) == IF arg = Omitted THEN "guess" ELSE arg

\* ------------------------------------------------------------------ state

VARIABLES
    instances,   \* Database._instances: identity -> object (0: no entry)
    objs,        \* the Database objects allocated so far, by object number
    engines,     \* the engines create_engine has built, in order of creation
    checkedOut,  \* per engine, the connections leased and not yet released
    pc,          \* per thread, where the caller stands
    key,         \* per thread, the (project, extension) of its constructor call
    self,        \* per thread, the object its current method runs on
    inHand,      \* per thread, the engine its call has in hand: returned by
                 \* create_engine and not stored yet, or read from
                 \* self._engine and not connected yet (0: none)
    db,          \* per thread, the Database the caller holds (0: none yet)
    loc,         \* per thread, the locals of its fetch / fetch_raw call
    calls,       \* the Database(...) calls started so far
    log,         \* history: <<identity, object>> of every completed construction
    raced,       \* history: identities first requested by two callers at once
    fromSite,    \* per thread, the from_site call it is in or returned from last
    fnIn,        \* the arguments of a pure-function call
    fnOut        \* and its result

regVars == <<instances, objs, engines>>
histVars == <<calls, log, raced, fromSite>>
fnVars == <<fnIn, fnOut>>
vars == <<instances, objs, engines, checkedOut, pc, key, self, inHand, db, loc,
          calls, log, raced, fromSite, fnIn, fnOut>>

Unset == "<unset>"
NoExc == "none"

\* A Database object fresh from object.__new__: no slot is assigned yet.
BlankObject == [project |-> Unset, extension |-> Unset, host |-> Unset, engine |-> 0]

NoRet == [kind |-> "none"]
NoCursor == [description |-> <<>>, rows |-> <<>>]

\* The locals of a thread that is in no fetch / fetch_raw call.
NoLocals ==
    [entry |-> "none", stmt |-> "none", str_mode |-> None, overrides |-> <<>>,
     executable |-> "none",
     str_mode_ |-> Unset, conn |-> 0, txn |-> "none", cursor |-> NoCursor,
     column_info |-> <<>>, rows |-> <<>>, schema |-> <<>>, ret |-> NoRet,
     exc |-> NoExc, execs |-> 0]

NoCall == [fn |-> "none"]
NoKey == <<None, None>>

\* A pywikibot site, and no site; no from_site call.
Sites ==
    {[code |-> "zh", family |-> "wikipedia", wikiid |-> "zhwiki"],
     [code |-> "wikidata", family |-> "wikidata", wikiid |-> "wikidatawiki"]}
NoSite == [code |-> "none", family |-> "none", wikiid |-> "none"]
NoFromSite == [site |-> NoSite, extension |-> None, called |-> <<>>, ret |-> 0]

InitRegistry ==
    /\ instances = [i \in Identities |-> 0]
    /\ objs = <<>>
    /\ engines = <<>>
    /\ checkedOut = <<>>
    /\ pc = [t \in Threads |-> "idle"]
    /\ key = [t \in Threads |-> NoKey]
    /\ self = [t \in Threads |-> 0]
    /\ inHand = [t \in Threads |-> 0]
    /\ db = [t \in Threads |-> 0]
    /\ loc = [t \in Threads |-> NoLocals]
    /\ calls = 0
    /\ log = <<>>
    /\ raced = {}
    /\ fromSite = [t \in Threads |-> NoFromSite]

Init ==
    /\ InitRegistry
    /\ fnIn = NoCall
    /\ fnOut = Unset

\* --------------------------------------------------- Database construction

\* (mutant) a plain store d[k] = v in place of setdefault
setdefault_store(d, k, v) == [d EXCEPT ![k] = v]

\* (mutant) an entry of the same project under any extension counts as the
\* entry under k
setdefault_by_project(d, k, v) ==
    LET same == {id \in DOMAIN d : id[1] = k[1] /\ d[id] # 0}
    IN  IF d[k] # 0 THEN d
        ELSE IF same # {} THEN [d EXCEPT ![k] = d[CHOOSE id \in same : TRUE]]
        ELSE [d EXCEPT ![k] = v]

\* dict.setdefault: the entry under k if there is one, else v is stored.
setdefault(d, k, v) == IF d[k] # 0 THEN d ELSE [d EXCEPT ![k] = v]

\* (mutant) the extension is left out of the host
_construct_host_project_only(o) == o.project

\* Database._construct_host
_construct_host(o) ==
    IF o.extension = None THEN o.project ELSE o.extension \o "." \o o.project

\* (mutant) the database is named after the host
_create_engine_database_of_host(o) ==
    [host |-> o.host \o ".analytics.db.svc.wikimedia.cloud",
     database |-> o.host \o "_p",
     charset |-> "utf8",
     read_default_file |-> ".my.cnf"]

\* Database._create_engine: the URI parameters create_engine is called with.
_create_engine(o) ==
    [host |-> o.host \o ".analytics.db.svc.wikimedia.cloud",
     database |-> o.project \o "_p",
     charset |-> "utf8",
     read_default_file |-> ".my.cnf"]

\* A caller evaluates Database(project, extension).
CallDatabase(t) ==
    /\ pc[t] = "idle"
    /\ calls < MaxCalls
    /\ \E id \in Identities :
          /\ key' = [key EXCEPT ![t] = id]
          /\ raced' = IF /\ instances[id] = 0
                         /\ \E u \in Threads \ {t} : pc[u] = "new" /\ key[u] = id
                      THEN raced \cup {id}
                      ELSE raced
    /\ calls' = calls + 1
    /\ fromSite' = [fromSite EXCEPT ![t] = NoFromSite]
    /\ pc' = [pc EXCEPT ![t] = "new"]
    /\ UNCHANGED <<regVars, checkedOut, self, inHand, db, loc, log, fnVars>>

\* site.dbName(): the site's database name.
dbName(site) == site.wikiid

\* (mutant) the extension is not passed on
from_site_cls_project_only(project, extension) == <<project, None>>

\* cls(project, extension): the arguments of the constructor call.
from_site_cls(project, extension) == <<project, extension>>

\* Database.from_site(site, extension) is called: project = site.dbName(),
\* then cls(project, extension), which runs __new__ and __init__ as every
\* constructor call does.
CallFromSite(t) ==
    /\ pc[t] = "idle"
    /\ calls < MaxCalls
    /\ \E site \in Sites, extension \in {None, "termstore"} :
          LET project == dbName(site)
              id == from_site_cls(project, extension)
          IN  /\ <<project, extension>> \in Identities
              /\ key' = [key EXCEPT ![t] = id]
              /\ raced' = IF /\ instances[id] = 0
                             /\ \E u \in Threads \ {t} : pc[u] = "new" /\ key[u] = id
                          THEN raced \cup {id}
                          ELSE raced
              /\ fromSite' = [fromSite EXCEPT ![t] =
                                 [site |-> site, extension |-> extension,
                                  called |-> <<"dbName">>, ret |-> 0]]
    /\ calls' = calls + 1
    /\ pc' = [pc EXCEPT ![t] = "new"]
    /\ UNCHANGED <<regVars, checkedOut, self, inHand, db, loc, log, fnVars>>

\* Database.__new__: a fresh object is allocated, then setdefault returns the
\* object cached under the key, storing the fresh one if there was none.
New(t) ==
    /\ pc[t] = "new"
    /\ LET fresh == Len(objs) + 1
           cache == setdefault(instances, key[t], fresh)
       IN  /\ objs' = Append(objs, BlankObject)
           /\ instances' = cache
           /\ self' = [self EXCEPT ![t] = cache[key[t]]]
    /\ pc' = [pc EXCEPT ![t] = "init"]
    /\ UNCHANGED <<engines, checkedOut, key, inHand, db, loc, histVars, fnVars>>

\* Database.__init__, run by type.__call__ on the object __new__ returned:
\* self.project, self.extension and self.host are assigned. (Every caller
\* that runs __init__ on an object got it under the same key, so the three
\* assignments of racing callers store the same values.)
InitAttributes(t) ==
    /\ pc[t] = "init"
    /\ LET o == [objs[self[t]] EXCEPT !.project = key[t][1], !.extension = key[t][2]]
       IN  objs' = [objs EXCEPT ![self[t]] = [o EXCEPT !.host = _construct_host(o)]]
    /\ pc' = [pc EXCEPT ![t] = "init_engine"]
    /\ UNCHANGED <<instances, engines, checkedOut, key, self, inHand, db, loc, histVars, fnVars>>

\* self._create_engine(), the right-hand side of the last line of __init__:
\* create_engine builds an engine, which the caller has in hand.
InitEngine(t) ==
    /\ pc[t] = "init_engine"
    /\ engines' = Append(engines, _create_engine(objs[self[t]]))
    /\ checkedOut' = Append(checkedOut, 0)
    /\ inHand' = [inHand EXCEPT ![t] = Len(engines) + 1]
    /\ pc' = [pc EXCEPT ![t] = "store_engine"]
    /\ UNCHANGED <<instances, objs, key, self, db, loc, histVars, fnVars>>

\* self._engine = ...: the engine in hand is stored in the object, whatever
\* another caller has stored there meanwhile; then the call returns the
\* object.
StoreEngine(t) ==
    /\ pc[t] = "store_engine"
    /\ objs' = [objs EXCEPT ![self[t]].engine = inHand[t]]
    /\ inHand' = [inHand EXCEPT ![t] = 0]
    /\ db' = [db EXCEPT ![t] = self[t]]
    /\ log' = Append(log, <<key[t], self[t]>>)
    /\ key' = [key EXCEPT ![t] = NoKey]
    /\ self' = [self EXCEPT ![t] = 0]
    /\ fromSite' = [fromSite EXCEPT ![t].ret =
                        IF fromSite[t].site = NoSite THEN 0 ELSE self[t]]
    /\ pc' = [pc EXCEPT ![t] = "idle"]
    /\ UNCHANGED <<instances, engines, checkedOut, loc, calls, raced, fnVars>>

Construct(t) ==
    \/ CallDatabase(t)
    \/ New(t)
    \/ InitAttributes(t)
    \/ InitEngine(t)
    \/ StoreEngine(t)

\* ------------------------------------------------------- statement inputs

\* The three shapes of azusa.query._typing.Statement.
StmtKinds == {"Select", "TextClause", "str"}

\* What the driver hands back for an executed statement: the cursor's
\* description (name, type_code, ...) and its rows.
PagesCursor ==
    [description |-> << <<"page_id", 3>>, <<"page_title", 253>> >>,
     rows |-> << << <<"int", 1>>, <<"str", "Foo">> >>,
                 << <<"int", 2>>, <<"str", "Bar">> >> >>]
EmptyCursor ==
    [description |-> << <<"page_id", 3>>, <<"page_title", 253>> >>,
     rows |-> <<>>]
BlobCursor ==
    [description |-> << <<"rev_id", 8>>, <<"old_text", 252>>, <<"rev_len", 246>> >>,
     rows |-> << << <<"int", 7>>, <<"bytes", "Baz">>, <<"NoneType", None>> >> >>]
ExoticCursor ==
    [description |-> << <<"ts", 7>>, <<"geo", 255>>, <<"nothing", 6>> >>,
     rows |-> << << <<"NoneType", None>>, <<"bytes", "Qux">>, <<"NoneType", None>> >> >>]

\* A computed column of no known type code, holding an int and a float.
MixedCursor ==
    [description |-> << <<"page_id", 3>>, <<"score", 255>> >>,
     rows |-> << << <<"int", 1>>, <<"int", 3>> >>,
                 << <<"int", 2>>, <<"float", 4>> >> >>]

\* Results of a driver that is inconsistent with its own description: a later
\* row longer than the description, a later row shorter, a first row shorter.
LongRowCursor ==
    [description |-> << <<"page_id", 3>>, <<"page_title", 253>> >>,
     rows |-> << << <<"int", 1>>, <<"str", "Foo">> >>,
                 << <<"int", 2>>, <<"str", "Bar">>, <<"int", 9>> >> >>]
ShortRowCursor ==
    [description |-> << <<"page_id", 3>>, <<"page_title", 253>> >>,
     rows |-> << << <<"int", 1>>, <<"str", "Foo">> >>,
                 << <<"int", 2>> >> >>]
ShortFirstRowCursor ==
    [description |-> << <<"page_id", 3>>, <<"page_title", 253>> >>,
     rows |-> << << <<"int", 1>> >>,
                 << <<"int", 2>>, <<"str", "Bar">> >> >>]
\* A self-join that selects the same column name twice.
DuplicateCursor ==
    [description |-> << <<"namespace", 3>>, <<"namespace", 3>> >>,
     rows |-> << << <<"int", 0>>, <<"int", 1>> >> >>]
EmptyDuplicateCursor ==
    [description |-> << <<"namespace", 3>>, <<"namespace", 3>> >>,
     rows |-> <<>>]

\* The results drawn where callers run concurrently, and where one caller's
\* fetch is followed alone.
FewCursors == {PagesCursor, EmptyCursor}
RaggedCursors == {LongRowCursor, ShortRowCursor, ShortFirstRowCursor}
AllCursors ==
    {PagesCursor, EmptyCursor, BlobCursor, ExoticCursor, MixedCursor,
     DuplicateCursor,
     EmptyDuplicateCursor} \cup RaggedCursors

NoOverrides == <<>>
FewOverrides == {NoOverrides}
AllOverrides ==
    {NoOverrides,
     [n \in {"page_id"} |-> "UInt32"],
     [n \in {"page_title", "old_text", "geo"} |-> "Categorical"]}

\* ------------------------------------------------------------- fetch_raw

\* stmt = text(__stmt) if isinstance(__stmt, str) else __stmt
as_executable(stmt) == IF stmt = "str" THEN "TextClause" ELSE stmt

\* (mutant) the statement's shape is not looked at
effective_str_mode_shapeless(stmt, str_mode) ==
    IF str_mode = None THEN "str" ELSE str_mode

\* fetch's choice of str_mode_: 'str' for a Select, 'bytes' for the rest,
\* unless the caller passed a mode.
effective_str_mode(stmt, str_mode) ==
    IF str_mode = None
    THEN IF stmt = "Select" THEN "str" ELSE "bytes"
    ELSE str_mode

\* (mutant) the lease is given back only when the block ends normally
connection_exit_on_success(pool, e, exc) ==
    IF exc = NoExc THEN [pool EXCEPT ![e] = pool[e] - 1] ELSE pool

\* Connection.__exit__: the lease on engine e goes back to its pool, whether
\* the block ended normally or with the exception exc.
connection_exit(pool, e, exc) == [pool EXCEPT ![e] = pool[e] - 1]

\* (mutant) the transaction is left open
transaction_exit_left_open(exc, commits) == "active"

\* Transaction.__exit__: commit() on a normal end, rollback() on an
\* exception; a commit that fails is followed by rollback().
transaction_exit(exc, commits) ==
    IF exc = NoExc /\ commits THEN "committed" ELSE "rolledback"

\* The exception that leaves Transaction.__exit__: the block's own, or the
\* one of the failed commit.
transaction_exit_exc(exc, commits) ==
    IF exc = NoExc /\ ~commits THEN "CommitError" ELSE exc

\* An exception exc is raised in fetch_raw's with block: result, column_info
\* and rows are not read again.
raise(l, exc) ==
    [l EXCEPT !.exc = exc, !.cursor = NoCursor, !.column_info = <<>>, !.rows = <<>>]

\* (mutant) a statement failure is caught and an empty result returned
propagate_swallowing(exc) == IF exc = "StatementError" THEN NoExc ELSE exc

\* What leaves fetch_raw's with block: nothing catches exc, so it is raised
\* to the caller as it is.
propagate(exc) == exc

\* A caller holding a Database calls fetch_raw(stmt), or
\* fetch(stmt, str_mode, schema_overrides), which starts by choosing str_mode_
\* and calling fetch_raw(stmt).
FetchCall(t, entries, stmts, modes, overrides) ==
    /\ pc[t] = "idle"
    /\ db[t] # 0
    /\ \E entry \in entries, stmt \in stmts, m \in modes, ov \in overrides :
          /\ entry = "fetch_raw" => (m = None /\ ov = NoOverrides)
          /\ loc' = [loc EXCEPT ![t] =
                 [NoLocals EXCEPT
                     !.entry = entry,
                     !.stmt = stmt,
                     !.str_mode = m,
                     !.overrides = ov,
                     !.str_mode_ = IF entry = "fetch"
                                   THEN effective_str_mode(stmt, m)
                                   ELSE Unset]]
    /\ self' = [self EXCEPT ![t] = db[t]]
    /\ pc' = [pc EXCEPT ![t] = "read_engine"]
    /\ UNCHANGED <<regVars, checkedOut, key, inHand, db, histVars, fnVars>>

\* self._engine, the receiver of connect(): the caller reads the engine the
\* object holds now and has it in hand.
ReadEngine(t) ==
    /\ pc[t] = "read_engine"
    /\ inHand' = [inHand EXCEPT ![t] = objs[self[t]].engine]
    /\ pc' = [pc EXCEPT ![t] = "connect"]
    /\ UNCHANGED <<regVars, checkedOut, key, self, db, loc, histVars, fnVars>>

\* (mutant) connections are leased under one lock, held until the release
Connect_exclusive(t) ==
    /\ \A u \in Threads : loc[u].conn = 0
    /\ pc[t] = "connect"
    /\ LET e == inHand[t]
       IN  \/ /\ checkedOut' = [checkedOut EXCEPT ![e] = checkedOut[e] + 1]
              /\ loc' = [loc EXCEPT ![t].conn = e,
                                    ![t].executable = as_executable(loc[t].stmt)]
              /\ pc' = [pc EXCEPT ![t] = "begin"]
           \/ /\ loc' = [loc EXCEPT ![t].exc = "ConnectionError",
                                    ![t].executable = as_executable(loc[t].stmt)]
              /\ pc' = [pc EXCEPT ![t] = "raw_exit"]
              /\ UNCHANGED checkedOut
    /\ inHand' = [inHand EXCEPT ![t] = 0]
    /\ UNCHANGED <<regVars, key, self, db, histVars, fnVars>>

\* .connect() on the engine in hand: a connection is leased from that
\* engine's pool, whatever engine the object holds by now, or the connection
\* cannot be established and nothing is leased.
Connect(t) ==
    /\ pc[t] = "connect"
    /\ LET e == inHand[t]
       IN  \/ /\ checkedOut' = [checkedOut EXCEPT ![e] = checkedOut[e] + 1]
              /\ loc' = [loc EXCEPT ![t].conn = e,
                                    ![t].executable = as_executable(loc[t].stmt)]
              /\ pc' = [pc EXCEPT ![t] = "begin"]
           \/ /\ loc' = [loc EXCEPT ![t].exc = "ConnectionError",
                                    ![t].executable = as_executable(loc[t].stmt)]
              /\ pc' = [pc EXCEPT ![t] = "raw_exit"]
              /\ UNCHANGED checkedOut
    /\ inHand' = [inHand EXCEPT ![t] = 0]
    /\ UNCHANGED <<regVars, key, self, db, histVars, fnVars>>

\* connection.begin(): the transaction starts, or beginning it fails and the
\* connection's block is left.
Begin(t) ==
    /\ pc[t] = "begin"
    /\ \/ /\ loc' = [loc EXCEPT ![t].txn = "active"]
          /\ pc' = [pc EXCEPT ![t] = "execute"]
       \/ /\ loc' = [loc EXCEPT ![t] = raise(loc[t], "ConnectionError")]
          /\ pc' = [pc EXCEPT ![t] = "exit_conn"]
    /\ UNCHANGED <<regVars, checkedOut, key, self, inHand, db, histVars, fnVars>>

\* result = connection.execute(stmt): the driver answers with a cursor, or
\* rejects the statement.
Execute(t, cursors) ==
    /\ pc[t] = "execute"
    /\ \/ \E c \in cursors :
             /\ loc' = [loc EXCEPT ![t].cursor = c, ![t].execs = loc[t].execs + 1]
             /\ pc' = [pc EXCEPT ![t] = "describe"]
       \/ /\ loc' = [loc EXCEPT ![t] = raise([loc[t] EXCEPT !.execs = @ + 1],
                                               "StatementError")]
          /\ pc' = [pc EXCEPT ![t] = "exit_txn"]
    /\ UNCHANGED <<regVars, checkedOut, key, self, inHand, db, histVars, fnVars>>

\* column_info = tuple(ColumnInfo(name=x[0], type_code=x[1]) for x in
\* result.cursor.description), or reading the cursor's metadata fails.
Describe(t) ==
    /\ pc[t] = "describe"
    /\ \/ /\ loc' = [loc EXCEPT ![t].column_info =
                        [i \in DOMAIN loc[t].cursor.description |->
                            [name |-> loc[t].cursor.description[i][1],
                             type_code |-> loc[t].cursor.description[i][2]]]]
          /\ pc' = [pc EXCEPT ![t] = "fetchall"]
       \/ /\ loc' = [loc EXCEPT ![t] = raise(loc[t], "CursorError")]
          /\ pc' = [pc EXCEPT ![t] = "exit_txn"]
    /\ UNCHANGED <<regVars, checkedOut, key, self, inHand, db, histVars, fnVars>>

\* rows = tuple(result.fetchall()), or reading the rows fails.
FetchAll(t) ==
    /\ pc[t] = "fetchall"
    /\ \/ /\ loc' = [loc EXCEPT ![t].rows = loc[t].cursor.rows]
          /\ pc' = [pc EXCEPT ![t] = "exit_txn"]
       \/ /\ loc' = [loc EXCEPT ![t] = raise(loc[t], "CursorError")]
          /\ pc' = [pc EXCEPT ![t] = "exit_txn"]
    /\ UNCHANGED <<regVars, checkedOut, key, self, inHand, db, histVars, fnVars>>

\* The with statement leaves the transaction's block ...
ExitTxn(t) ==
    /\ pc[t] = "exit_txn"
    /\ \E commits \in IF loc[t].exc = NoExc THEN BOOLEAN ELSE {FALSE} :
          LET exc == transaction_exit_exc(loc[t].exc, commits)
              left == IF exc = loc[t].exc THEN loc[t] ELSE raise(loc[t], exc)
          IN  loc' = [loc EXCEPT ![t] =
                         [left EXCEPT !.txn = transaction_exit(loc[t].exc, commits)]]
    /\ pc' = [pc EXCEPT ![t] = "exit_conn"]
    /\ UNCHANGED <<regVars, checkedOut, key, self, inHand, db, histVars, fnVars>>

\* (mutant) a failed call drops the cache entry of the object it ran on
ExitConn_evicting(t) ==
    /\ pc[t] = "exit_conn"
    /\ checkedOut' = connection_exit(checkedOut, loc[t].conn, loc[t].exc)
    /\ loc' = [loc EXCEPT ![t].conn = 0]
    /\ pc' = [pc EXCEPT ![t] = "raw_exit"]
    /\ instances' = IF loc[t].exc = NoExc THEN instances
                    ELSE [id \in DOMAIN instances |->
                             IF instances[id] = self[t] THEN 0 ELSE instances[id]]
    /\ UNCHANGED <<objs, engines, key, self, inHand, db, histVars, fnVars>>

\* ... and then the connection's block.
ExitConn(t) ==
    /\ pc[t] = "exit_conn"
    /\ checkedOut' = connection_exit(checkedOut, loc[t].conn, loc[t].exc)
    /\ loc' = [loc EXCEPT ![t].conn = 0]
    /\ pc' = [pc EXCEPT ![t] = "raw_exit"]
    /\ UNCHANGED <<regVars, key, self, inHand, db, histVars, fnVars>>

\* fetch_raw ends: return RawQueryResult(column_info=..., rows=...), or the
\* exception leaves fetch_raw, and fetch with it.
RawExit(t) ==
    /\ pc[t] = "raw_exit"
    /\ LET raised == propagate(loc[t].exc)
           raw == [kind |-> "raw", column_info |-> loc[t].column_info,
                   rows |-> loc[t].rows]
       IN  IF raised # NoExc
           THEN /\ loc' = [loc EXCEPT ![t].ret = [kind |-> "raised", exc |-> raised]]
                /\ pc' = [pc EXCEPT ![t] = "raised"]
           ELSE /\ loc' = [loc EXCEPT ![t].ret = raw]
                /\ pc' = [pc EXCEPT ![t] = IF loc[t].entry = "fetch"
                                           THEN "schema" ELSE "returned"]
    /\ UNCHANGED <<regVars, checkedOut, key, self, inHand, db, histVars, fnVars>>

\* ------------------------------------------------------------------ fetch

\* schema = [(col.name, map_type_code(col.type_code, str_mode_)) for col in
\* raw_data["column_info"]]
build_schema(column_info, str_mode_) ==
    [i \in DOMAIN column_info |->
        <<column_info[i].name, map_type_code(column_info[i].type_code, str_mode_)>>]

\* The data type polars gives a Python value of a row.
python_dtype(pytype) ==
    CASE pytype = "int" -> "Int64"
      [] pytype = "float" -> "Float64"
      [] pytype = "str" -> "String"
      [] pytype = "bytes" -> "Binary"
      [] OTHER -> "Null"

NoSupertype == "<no supertype>"

\* The supertype of two data types: the wider of two numeric types, the
\* other type for Null, String for String and a number, else none.
supertype(a, b) ==
    CASE a = b -> a
      [] a = "Null" -> b
      [] b = "Null" -> a
      [] {a, b} = {"Int64", "Float64"} -> "Float64"
      [] "String" \in {a, b} /\ {a, b} \cap {"Int64", "Float64"} # {} -> "String"
      [] OTHER -> NoSupertype

\* The type polars infers for column i of the rows: the supertype of the
\* types of its values from row r on, Null when they are all None or there
\* is no row.
RECURSIVE infer_dtype(_, _, _)
infer_dtype(rows, i, r) ==
    IF r > Len(rows) THEN "Null"
    ELSE LET rest == infer_dtype(rows, i, r + 1)
         IN  IF rest = NoSupertype THEN NoSupertype
             ELSE supertype(python_dtype(rows[r][i][1]), rest)

\* A value of a row can be appended to a column of type dtype: None to any
\* column, a value to a column of its own type, an int to a column of
\* another numeric type, a str to a Categorical column.
fits(pytype, dtype) ==
    \/ pytype = "NoneType"
    \/ python_dtype(pytype) = dtype
    \/ pytype = "int" /\ dtype \in {"UInt32", "Float64"}
    \/ pytype = "str" /\ dtype = "Categorical"

\* (mutant) the override is used only where schema gives no type
declared_dtype_schema_first(schema, overrides, i) ==
    IF schema[i][2] = "Unknown" /\ schema[i][1] \in DOMAIN overrides
    THEN overrides[schema[i][1]]
    ELSE schema[i][2]

\* The type a column is declared with: schema_overrides' entry for its name
\* if there is one, else the type in schema.
declared_dtype(schema, overrides, i) ==
    IF schema[i][1] \in DOMAIN overrides
    THEN overrides[schema[i][1]]
    ELSE schema[i][2]

\* The column names of a schema occur once each.
unique_names(schema) ==
    \A i, j \in DOMAIN schema : schema[i][1] = schema[j][1] => i = j

\* The type of column i of the frame: the declared one, or the inferred one
\* for a column declared Unknown.
column_dtype(rows, schema, overrides, i) ==
    LET declared == declared_dtype(schema, overrides, i)
    IN  IF declared = "Unknown" THEN infer_dtype(rows, i, 1) ELSE declared

\* pl.LazyFrame(rows, schema, schema_overrides=..., orient="row").collect():
\* polars compares the length of the first row with the number of columns
\* and refuses column names that occur twice; it then fills one buffer per
\* column from each row's leading values, so that values past the last column
\* are left out and a row that is too short leaves columns of unequal
\* length, which is refused. A column declared Unknown gets the type inferred
\* from its values; a value that cannot be appended to its column's buffer,
\* or values with no common type in an inferred column, are refused.
LazyFrame(rows, schema, overrides) ==
    LET N == Len(schema)
        leading(r) == {i \in 1..N : i <= Len(rows[r])}
    IN  IF rows # <<>> /\ Len(rows[1]) # N
        THEN [kind |-> "raised", exc |-> "ShapeError"]
        ELSE IF ~unique_names(schema)
        THEN [kind |-> "raised", exc |-> "DuplicateError"]
        ELSE IF \E r \in DOMAIN rows : Len(rows[r]) < N
        THEN [kind |-> "raised", exc |-> "ShapeError"]
        ELSE IF \E r \in DOMAIN rows : \E i \in leading(r) :
                    ~fits(rows[r][i][1], column_dtype(rows, schema, overrides, i))
        THEN [kind |-> "raised", exc |-> "ComputeError"]
        ELSE [kind |-> "table",
              columns |-> [i \in DOMAIN schema |->
                             <<schema[i][1], column_dtype(rows, schema, overrides, i)>>],
              rows |-> [r \in DOMAIN rows |-> SubSeq(rows[r], 1, N)],
              height |-> Len(rows)]

BuildSchema(t) ==
    /\ pc[t] = "schema"
    /\ loc' = [loc EXCEPT ![t].schema =
                  build_schema(loc[t].ret.column_info, loc[t].str_mode_)]
    /\ pc' = [pc EXCEPT ![t] = "frame"]
    /\ UNCHANGED <<regVars, checkedOut, key, self, inHand, db, histVars, fnVars>>

\* return pl.LazyFrame(...).collect(): the table, or the exception polars
\* raises, which fetch does not catch.
Materialize(t) ==
    /\ pc[t] = "frame"
    /\ LET frame == LazyFrame(loc[t].ret.rows, loc[t].schema, loc[t].overrides)
       IN  /\ loc' = [loc EXCEPT ![t].ret = frame,
                                 ![t].exc = IF frame.kind = "raised"
                                            THEN frame.exc ELSE NoExc]
           /\ pc' = [pc EXCEPT ![t] = IF frame.kind = "raised"
                                      THEN "raised" ELSE "returned"]
    /\ UNCHANGED <<regVars, checkedOut, key, self, inHand, db, histVars, fnVars>>

\* The caller goes on with the value returned, or with the exception raised.
Resume(t) ==
    /\ pc[t] \in {"returned", "raised"}
    /\ loc' = [loc EXCEPT ![t] = NoLocals]
    /\ self' = [self EXCEPT ![t] = 0]
    /\ pc' = [pc EXCEPT ![t] = "idle"]
    /\ UNCHANGED <<regVars, checkedOut, key, inHand, db, histVars, fnVars>>

\* The steps of fetch_raw, called by itself or by fetch.
FetchRaw(t, entries, stmts, modes, overrides, cursors) ==
    \/ FetchCall(t, entries, stmts, modes, overrides)
    \/ ReadEngine(t)
    \/ Connect(t)
    \/ Begin(t)
    \/ Execute(t, cursors)
    \/ Describe(t)
    \/ FetchAll(t)
    \/ ExitTxn(t)
    \/ ExitConn(t)
    \/ RawExit(t)
    \/ Resume(t)

\* The steps of fetch that follow its call of fetch_raw.
Fetch(t) ==
    \/ BuildSchema(t)
    \/ Materialize(t)

\* ------------------------------------------------------------ statements

MaxSeqLen == 2
MaxPairs == 2

\* Python values a filter is built from. A str is the sequence of its
\* characters, a list the sequence of its elements.
Str(chars) == [t |-> "str", v |-> chars]
Num(n) == [t |-> "int", v |-> <<n>>]
List(elems) == [t |-> "list", v |-> elems]
PyNone == [t |-> "NoneType", v |-> <<>>]
TypeError == [t |-> "TypeError", v |-> <<>>]

\* value: str | float | Iterable[str | float]
Atoms == {Str(<<"T", "o", "p">>), Str(<<"F", "A">>), Str(<<"B">>), Num(5)}
AtomLists == {List(e) : e \in UNION {[1..n -> Atoms] : n \in 0..MaxSeqLen}}
\* Sequences with an element that is itself a list, which cannot be hashed.
NestedLists == {List(<<List(<<Num(5)>>)>>),
                List(<<Str(<<"F", "A">>), List(<<>>)>>)}
Values == Atoms \cup AtomLists \cup NestedLists \cup {PyNone}
FewValues == {PyNone, Str(<<"F", "A">>), Num(5), List(<<>>),
              List(<<Str(<<"T", "o", "p">>), Str(<<"F", "A">>)>>),
              List(<<List(<<Num(5)>>)>>)}

\* The columns query_pages_by_wikiproject filters on.
Columns == {"pap_project_title", "pa_class", "pa_importance"}

\* (mutant) no value is taken for a str
isinstance_never(value, cls) == FALSE

isinstance(value, cls) == value.t = cls

\* (mutant) every value is taken to be hashable
hashable_always(value) == TRUE

\* hash(value) succeeds: not for a list.
hashable(value) == value.t # "list"

\* The elements iterating over the value yields, in order: the characters
\* of a str, the elements of a list.
iter(value) ==
    IF value.t = "str" THEN [i \in DOMAIN value.v |-> Str(<<value.v[i]>>)]
    ELSE value.v

\* (mutant) the elements are kept as they come
set_keeping_sequence(value) == value

\* set(value): the distinct elements of an iterable; TypeError for a value
\* that is not iterable, or with an element that is not hashable.
set(value) ==
    IF value.t \notin {"str", "list"} THEN TypeError
    ELSE IF \E i \in DOMAIN iter(value) : ~hashable(iter(value)[i]) THEN TypeError
    ELSE [t |-> "set", v |-> {iter(value)[i] : i \in DOMAIN iter(value)}]

\* column.op("=")(value) and column.in_(values)
op_eq(column, value) == [column |-> column, op |-> "=", value |-> value]
in_(column, values) == [column |-> column, op |-> "IN", value |-> values]

_generate_where_clause(column, value) ==
    IF isinstance(value, "str") THEN op_eq(column, value)
    ELSE IF set(value) # TypeError THEN in_(column, set(value))
    ELSE op_eq(column, value)

\* (mutant) the truth value of val: an empty str or list is skipped as well
is_not_None_truthy(val) ==
    /\ val.t # "NoneType"
    /\ ~(val.t \in {"str", "list"} /\ Len(val.v) = 0)

\* (mutant) a pair is kept whatever its value
is_not_None_ever(val) == TRUE

is_not_None(val) == val # PyNone

\* [_generate_where_clause(col, val) for col, val in conditions
\*  if val is not None]
where_clauses(conditions) ==
    LET kept == SelectSeq(conditions, LAMBDA c : is_not_None(c[2]))
    IN  [i \in DOMAIN kept |-> _generate_where_clause(kept[i][1], kept[i][2])]

fields ==
    <<"page_id", "page_namespace", "page_title", "pap_project_title",
      "pa_class", "pa_importance">>

\* (mutant) quality and priority are exchanged
conditions_swapped(name, quality, priority) ==
    << <<"pap_project_title", name>>,
       <<"pa_class", priority>>,
       <<"pa_importance", quality>> >>

conditions(name, quality, priority) ==
    << <<"pap_project_title", name>>,
       <<"pa_class", quality>>,
       <<"pa_importance", priority>> >>

\* select(*fields).where(*where_clauses(conditions)).select_from(Pap)
\*     .join(Pa, ...).join(Page, ...)
query_pages_by_wikiproject(name, quality, priority) ==
    [select |-> fields,
     where |-> where_clauses(conditions(name, quality, priority)),
     select_from |-> "page_assessments_projects",
     join |-> << [target |-> "page_assessments",
                  onclause |-> <<"pap_project_id", "pa_project_id">>],
                 [target |-> "page",
                  onclause |-> <<"pa_page_id", "page_id">>] >>]

\* ------------------------------------------------------------- sections

MaxTextLen == 3
MaxContentLen == 2

\* A text is the sequence of its characters; a comment tag, which the
\* functions below treat as a whole, is one element of it.
start_tag(name) == "<!-- tag start name=\"" \o name \o "\" -->"
end_tag(name) == "<!-- tag end name=\"" \o name \o "\" -->"

make_section(name, content) == <<start_tag(name)>> \o content \o <<end_tag(name)>>

\* AzusaTags._tag, AzusaTags.start and AzusaTags.end of AzusaTags(name).
_tag(pos, name) == "<!-- azusa " \o pos \o "=\"" \o name \o "\" -->"
start(name) == _tag("start", name)
end(name) == _tag("end", name)

\* AzusaTags.make_section
tags_make_section(name, content) == <<start(name)>> \o content \o <<end(name)>>

\* A compiled pattern open(.*?)close with re.DOTALL: its escaped literals and
\* the number of its groups.
Pattern(open, close, groups) == [open |-> open, close |-> close, groups |-> groups]

\* AzusaTags.section_pattern
section_pattern(name) == Pattern(start(name), end(name), 1)

\* pattern.search(text) from position pos: the leftmost open tag that a close
\* tag follows, up to the first close tag after it; <<0, 0>> for no match.
search(pattern, text, pos) ==
    LET closes(i) == {j \in i + 1..Len(text) : text[j] = pattern.close}
        opens == {i \in pos..Len(text) :
                     text[i] = pattern.open /\ closes(i) # {}}
        first(S) == CHOOSE x \in S : \A y \in S : x <= y
    IN  IF opens = {} THEN <<0, 0>>
        ELSE <<first(opens), first(closes(first(opens)))>>

\* What a replacement template is parsed into: a reference to group 1, and
\* the failure re.error.
Group1 == "<group 1>"
ReError == [t |-> "re.error", v |-> <<>>]

\* re's parsing of the replacement: a backslash escapes what follows it.
\* \\ is a backslash, \n a line feed, \1 the first group, \11 the eleventh
\* and \111 the character I; a reference to a group the pattern has not and
\* an escaped letter that is no escape are errors (an element "<error>");
\* a backslash before any other character stays.
RECURSIVE parse_template(_, _, _)
parse_template(repl, i, groups) ==
    IF i > Len(repl) THEN <<>>
    ELSE IF repl[i] # "\\" THEN <<repl[i]>> \o parse_template(repl, i + 1, groups)
    ELSE IF i = Len(repl) THEN <<"<error>">>
    ELSE LET c == repl[i + 1]
             digits == IF i + 3 <= Len(repl) /\ repl[i + 2] = "1" /\ repl[i + 3] = "1"
                       THEN 3
                       ELSE IF i + 2 <= Len(repl) /\ repl[i + 2] = "1" THEN 2
                       ELSE 1
         IN  CASE c = "\\" -> <<"\\">> \o parse_template(repl, i + 2, groups)
               [] c = "n" -> <<"\n">> \o parse_template(repl, i + 2, groups)
               [] c = "c" -> <<"<error>">>
               [] c = "1" /\ digits = 3 ->
                     <<"I">> \o parse_template(repl, i + 4, groups)
               [] c = "1" /\ digits = 2 -> <<"<error>">>
               [] c = "1" /\ digits = 1 ->
                     IF groups >= 1
                     THEN <<Group1>> \o parse_template(repl, i + 2, groups)
                     ELSE <<"<error>">>
               [] OTHER -> <<"\\", c>> \o parse_template(repl, i + 2, groups)

\* The parsed template with the groups of a match filled in.
RECURSIVE expand(_, _)
expand(template, group1) ==
    IF template = <<>> THEN <<>>
    ELSE (IF Head(template) = Group1 THEN group1 ELSE <<Head(template)>>)
         \o expand(Tail(template), group1)

\* The text from pos on with the matches replaced, at most count of them
\* (all of them when count is 0).
RECURSIVE sub_from(_, _, _, _, _, _)
sub_from(pattern, template, text, pos, count, done) ==
    LET m == search(pattern, text, pos)
    IN  IF m = <<0, 0>> \/ (count # 0 /\ done >= count)
        THEN SubSeq(text, pos, Len(text))
        ELSE SubSeq(text, pos, m[1] - 1)
             \o expand(template, SubSeq(text, m[1] + 1, m[2] - 1))
             \o sub_from(pattern, template, text, m[2] + 1, count, done + 1)

\* re.sub(pattern, repl, text, count): the replacement is parsed first, and
\* a replacement re cannot parse raises re.error, match or no match.
sub(pattern, repl, text, count) ==
    LET template == parse_template(repl, 1, pattern.groups)
    IN  IF \E k \in DOMAIN template : template[k] = "<error>"
        THEN ReError
        ELSE Str(sub_from(pattern, template, text, 1, count, 0))

\* match.group(1) of the first match, or None
group_of_search(pattern, text) ==
    LET m == search(pattern, text, 1)
    IN  IF m = <<0, 0>> THEN PyNone ELSE Str(SubSeq(text, m[1] + 1, m[2] - 1))

get_section_content(name, text) ==
    group_of_search(Pattern(start_tag(name), end_tag(name), 1), text)

update_section(name, text, content) ==
    sub(Pattern(start_tag(name), end_tag(name), 0), make_section(name, content),
        text, 0)

\* AzusaTags(name).extract_content(text)
extract_content(name, text) == group_of_search(section_pattern(name), text)

\* AzusaTags(name).replace_content(text, new, count=count)
replace_content(name, text, new, count) ==
    sub(section_pattern(name), tags_make_section(name, new), text, count)

\* The names, texts and contents the functions are called with: the texts
\* hold the tags of section foo.
Names == {"foo", "bar"}
Seqs(S, n) == UNION {[1..k -> S] : k \in 0..n}
SectionTexts == Seqs({start_tag("foo"), end_tag("foo"), "n", "\\"}, MaxTextLen)
SectionContents == Seqs({"n", "c", "1", "\\", end_tag("foo")}, MaxContentLen)
TagsTexts == Seqs({start("foo"), end("foo"), "n", "\\"}, MaxTextLen)
TagsContents == Seqs({"n", "c", "1", "\\", end("foo")}, MaxContentLen)

\* --------------------------------------------------------- specifications

\* Callers on NumThreads threads construct Databases, in any interleaving of
\* the steps of their calls.
Next == \E t \in Threads : Construct(t)

Spec == Init /\ [][Next]_vars

Min(S) == CHOOSE x \in S : \A y \in S : x <= y
Max(S) == CHOOSE x \in S : \A y \in S : x >= y

\* The registry after caller 1, then caller 2, ... has each run one
\* Database(f[t]) call to its end: call k allocated object k and built engine
\* k; the first call for an identity cached its object, and the last one
\* assigned the object's engine.
AfterConstructions(f) ==
    LET asking(id) == {k \in Threads : f[k] = id}
        first(id) == IF asking(id) = {} THEN 0 ELSE Min(asking(id))
        built(k) == [project |-> f[k][1], extension |-> f[k][2],
                     host |-> _construct_host([project |-> f[k][1],
                                               extension |-> f[k][2]]),
                     engine |-> Max(asking(f[k]))]
    IN  /\ instances = [id \in Identities |-> first(id)]
        /\ objs = [k \in Threads |-> IF first(f[k]) = k THEN built(k) ELSE BlankObject]
        /\ engines = [k \in Threads |-> _create_engine(built(k))]
        /\ checkedOut = [k \in Threads |-> 0]
        /\ db = [t \in Threads |-> first(f[t])]
        /\ log = [k \in Threads |-> <<f[k], first(f[k])>>]
        /\ calls = NumThreads

\* The identities of the Databases the callers hold to start with.
HeldIdentities == {<<"zhwiki", None>>, <<"wikidatawiki", "termstore">>}

\* The callers are interchangeable: they are numbered so that those holding
\* Database("zhwiki") come first.
CallersInOrder(f) ==
    \A t, u \in Threads :
        (t < u /\ f[u] = <<"zhwiki", None>>) => f[t] = <<"zhwiki", None>>

\* Every caller holds a Database; the callers run fetch_raw on theirs and
\* construct Databases again, in any interleaving of their steps.
InitLease ==
    /\ \E f \in [Threads -> HeldIdentities] :
          CallersInOrder(f) /\ AfterConstructions(f)
    /\ pc = [t \in Threads |-> "idle"]
    /\ key = [t \in Threads |-> NoKey]
    /\ self = [t \in Threads |-> 0]
    /\ inHand = [t \in Threads |-> 0]
    /\ loc = [t \in Threads |-> NoLocals]
    /\ raced = {}
    /\ fromSite = [t \in Threads |-> NoFromSite]
    /\ fnIn = NoCall
    /\ fnOut = Unset

NextLease ==
    \E t \in Threads :
        \/ Construct(t)
        \/ FetchRaw(t, {"fetch_raw"}, {"str"}, {None}, FewOverrides, FewCursors)

SpecLease == InitLease /\ [][NextLease]_vars

\* One caller has constructed Database("zhwiki") and calls fetch_raw and
\* fetch, with every statement shape, string mode, override and driver result.
InitFetch ==
    /\ instances = [i \in Identities |-> IF i = <<"zhwiki", None>> THEN 1 ELSE 0]
    /\ objs = << [project |-> "zhwiki", extension |-> None, host |-> "zhwiki",
                  engine |-> 1] >>
    /\ engines = << _create_engine(objs[1]) >>
    /\ checkedOut = <<0>>
    /\ pc = [t \in Threads |-> "idle"]
    /\ key = [t \in Threads |-> NoKey]
    /\ self = [t \in Threads |-> 0]
    /\ inHand = [t \in Threads |-> 0]
    /\ db = [t \in Threads |-> IF t = 1 THEN 1 ELSE 0]
    /\ loc = [t \in Threads |-> NoLocals]
    /\ calls = 1
    /\ log = << <<<<"zhwiki", None>>, 1>> >>
    /\ raced = {}
    /\ fromSite = [t \in Threads |-> NoFromSite]
    /\ fnIn = NoCall
    /\ fnOut = Unset

NextFetch ==
    \/ FetchRaw(1, {"fetch_raw", "fetch"}, StmtKinds, {None} \cup StrModes,
                AllOverrides, AllCursors)
    \/ Fetch(1)

SpecFetch == InitFetch /\ [][NextFetch]_vars

\* map_type_code is called with a type code and a string mode, or none.
InitMap ==
    /\ InitRegistry
    /\ fnIn \in [fn : {"map_type_code"}, code : TypeCodes,
                 str_mode : StrModes \cup {Omitted}]
    /\ fnOut = Unset

CallMapTypeCode ==
    /\ fnIn.fn = "map_type_code"
    /\ fnOut = Unset
    /\ fnOut' = map_type_code(fnIn.code, str_mode_default(fnIn.str_mode))
    /\ UNCHANGED <<regVars, checkedOut, pc, key, self, inHand, db, loc, histVars, fnIn>>

NextMap == CallMapTypeCode

SpecMap == InitMap /\ [][NextMap]_vars

\* Callers construct Databases directly and from pywikibot sites.
NextSite == \E t \in Threads : Construct(t) \/ CallFromSite(t)

SpecSite == Init /\ [][NextSite]_vars

\* One caller constructs Databases, directly and from sites, and runs
\* fetch_raw and fetch on the Database it holds, one call after the other.
NextSeq ==
    \/ Construct(1)
    \/ CallFromSite(1)
    \/ FetchRaw(1, {"fetch_raw", "fetch"}, {"str"}, {None}, FewOverrides, FewCursors)
    \/ Fetch(1)

SpecSeq == Init /\ [][NextSeq]_vars

\* One of the statement builders is called with its arguments, by caller 1,
\* and returns.
Pairs == Columns \X FewValues
InitWhere ==
    /\ InitRegistry
    /\ fnIn \in [fn : {"_generate_where_clause"}, column : Columns, value : Values]
            \cup [fn : {"where_clauses"},
                  conditions : UNION {[1..n -> Pairs] : n \in 0..MaxPairs}]
            \cup [fn : {"query_pages_by_wikiproject"}, name : FewValues,
                  quality : FewValues, priority : FewValues]
    /\ fnOut = Unset

CallGenerateWhereClause ==
    /\ fnIn.fn = "_generate_where_clause"
    /\ pc[1] = "idle"
    /\ fnOut' = _generate_where_clause(fnIn.column, fnIn.value)
    /\ pc' = [pc EXCEPT ![1] = "returned"]
    /\ UNCHANGED <<regVars, checkedOut, key, self, inHand, db, loc, histVars, fnIn>>

CallWhereClauses ==
    /\ fnIn.fn = "where_clauses"
    /\ pc[1] = "idle"
    /\ fnOut' = where_clauses(fnIn.conditions)
    /\ pc' = [pc EXCEPT ![1] = "returned"]
    /\ UNCHANGED <<regVars, checkedOut, key, self, inHand, db, loc, histVars, fnIn>>

CallQueryPagesByWikiproject ==
    /\ fnIn.fn = "query_pages_by_wikiproject"
    /\ pc[1] = "idle"
    /\ fnOut' = query_pages_by_wikiproject(fnIn.name, fnIn.quality, fnIn.priority)
    /\ pc' = [pc EXCEPT ![1] = "returned"]
    /\ UNCHANGED <<regVars, checkedOut, key, self, inHand, db, loc, histVars, fnIn>>

NextWhere ==
    \/ CallGenerateWhereClause
    \/ CallWhereClauses
    \/ CallQueryPagesByWikiproject

SpecWhere == InitWhere /\ [][NextWhere]_vars

\* One of the section functions is called with its arguments, by caller 1,
\* and returns or raises.
InitSection ==
    /\ InitRegistry
    /\ fnIn \in [fn : {"update_section"}, name : Names, text : SectionTexts,
                 content : SectionContents]
            \cup [fn : {"get_section_content"}, name : Names, text : SectionTexts]
            \cup [fn : {"replace_content"}, name : Names, text : TagsTexts,
                  new : TagsContents, count : {0, 1}]
            \cup [fn : {"extract_content"}, name : Names, text : TagsTexts]
    /\ fnOut = Unset

CallUpdateSection ==
    /\ fnIn.fn = "update_section"
    /\ pc[1] = "idle"
    /\ fnOut' = update_section(fnIn.name, fnIn.text, fnIn.content)
    /\ pc' = [pc EXCEPT ![1] = "returned"]
    /\ UNCHANGED <<regVars, checkedOut, key, self, inHand, db, loc, histVars, fnIn>>

CallGetSectionContent ==
    /\ fnIn.fn = "get_section_content"
    /\ pc[1] = "idle"
    /\ fnOut' = get_section_content(fnIn.name, fnIn.text)
    /\ pc' = [pc EXCEPT ![1] = "returned"]
    /\ UNCHANGED <<regVars, checkedOut, key, self, inHand, db, loc, histVars, fnIn>>

CallReplaceContent ==
    /\ fnIn.fn = "replace_content"
    /\ pc[1] = "idle"
    /\ fnOut' = replace_content(fnIn.name, fnIn.text, fnIn.new, fnIn.count)
    /\ pc' = [pc EXCEPT ![1] = "returned"]
    /\ UNCHANGED <<regVars, checkedOut, key, self, inHand, db, loc, histVars, fnIn>>

CallExtractContent ==
    /\ fnIn.fn = "extract_content"
    /\ pc[1] = "idle"
    /\ fnOut' = extract_content(fnIn.name, fnIn.text)
    /\ pc' = [pc EXCEPT ![1] = "returned"]
    /\ UNCHANGED <<regVars, checkedOut, key, self, inHand, db, loc, histVars, fnIn>>

NextSection ==
    \/ CallUpdateSection
    \/ CallGetSectionContent
    \/ CallReplaceContent
    \/ CallExtractContent

SpecSection == InitSection /\ [][NextSection]_vars

\* ----------------------------------------------------------------- claims

\* The engine parameters _create_engine derives for an identity.
EngineFor(id) ==
    _create_engine([project |-> id[1],
                    host |-> _construct_host([project |-> id[1],
                                              extension |-> id[2]])])

\* The engines built so far for an identity.
EnginesBuiltFor(id) == {k \in DOMAIN engines : engines[k] = EngineFor(id)}

\* C1: any two completed Database(project, extension) constructions with an
\* equal identity returned the same object, whatever was constructed between
\* them.
C1_SameIdentitySameObject ==
    \A i, j \in DOMAIN log : log[i][1] = log[j][1] => log[i][2] = log[j][2]

\* An identity was constructed, then another one, then the first one again.
C1_Witness ==
    \E i, j, k \in DOMAIN log :
        /\ i < j /\ j < k
        /\ log[i][1] = log[k][1]
        /\ log[j][1] # log[i][1]
        /\ log[i][2] = log[k][2]

\* C2: for every identity the engine is built at most once, however often
\* Database(project, extension) is called with it.
C2_EngineBuiltAtMostOnce ==
    \A id \in Identities : Cardinality(EnginesBuiltFor(id)) <= 1

\* C3: callers that concurrently request the same identity, not cached yet,
\* all get the same object, and at most one engine is built for it.
C3_ConcurrentFirstAccess ==
    \A id \in raced :
        /\ \A i, j \in DOMAIN log :
              (log[i][1] = id /\ log[j][1] = id) => log[i][2] = log[j][2]
        /\ Cardinality(EnginesBuiltFor(id)) <= 1

\* The threads that hold a lease on engine e.
Lessees(e) == {t \in Threads : loc[t].conn = e}

\* C4: a fetch_raw call has released its lease when control is back with the
\* caller, whether it returns or raises: a pool's leases are exactly those of
\* the callers still inside their with block.
C4_LeaseReleased ==
    /\ \A t \in Threads :
          pc[t] \in {"idle", "raw_exit", "returned", "raised"} => loc[t].conn = 0
    /\ \A e \in DOMAIN checkedOut : checkedOut[e] = Cardinality(Lessees(e))
    /\ (\A t \in Threads : pc[t] \in {"idle", "returned", "raised"})
          => \A e \in DOMAIN checkedOut : checkedOut[e] = 0

\* One fetch_raw call returned an empty result and another one failed inside
\* its transaction; no lease is held.
C4_Witness ==
    \E t, u \in Threads :
        /\ pc[t] = "returned" /\ loc[t].txn = "committed" /\ loc[t].ret.rows = <<>>
        /\ pc[u] = "raised" /\ loc[u].txn = "rolledback"
        /\ \A e \in DOMAIN checkedOut : checkedOut[e] = 0

\* C5: a failure raised in fetch_raw reaches the caller of fetch_raw, or of
\* fetch, as it was raised, with no result in its place, and the statement is
\* executed at most once per call.
C5_FailurePropagates ==
    \A t \in Threads :
        /\ loc[t].execs <= 1
        /\ pc[t] \in {"returned", "schema", "frame"}
              => (loc[t].exc = NoExc /\ loc[t].execs = 1)
        /\ (loc[t].exc # NoExc /\ pc[t] \in {"returned", "raised", "schema", "frame"})
              => (pc[t] = "raised" /\ loc[t].ret = [kind |-> "raised", exc |-> loc[t].exc])

\* fetch raised the statement failure of its one execution.
C5_Witness ==
    /\ pc[1] = "raised"
    /\ loc[1].entry = "fetch"
    /\ loc[1].execs = 1
    /\ loc[1].ret = [kind |-> "raised", exc |-> "StatementError"]

\* C6: for the ambiguous codes 247, 248, 249, 250, 252 and 253,
\* map_type_code gives String in mode 'str', Binary in mode 'bytes', and
\* Unknown in mode 'guess' or when no mode is passed.
C6_AmbiguousCodes ==
    (fnOut # Unset /\ fnIn.code \in {247, 248, 249, 250, 252, 253}) =>
        /\ fnIn.str_mode = "str" => fnOut = "String"
        /\ fnIn.str_mode = "bytes" => fnOut = "Binary"
        /\ fnIn.str_mode \in {"guess", Omitted} => fnOut = "Unknown"

C6_Witness ==
    /\ fnIn.fn = "map_type_code" /\ fnIn.code = 253 /\ fnIn.str_mode = "bytes"
    /\ fnOut = "Binary"

\* C7: in every string mode map_type_code gives Int64 for 1, 2, 3 and 8,
\* Float64 for 4 and 5, Decimal for 246, Datetime for 7, Date for 10 and Null
\* for 6.
C7_FixedCodes ==
    fnOut # Unset =>
        /\ fnIn.code \in {1, 2, 3, 8} => fnOut = "Int64"
        /\ fnIn.code \in {4, 5} => fnOut = "Float64"
        /\ fnIn.code = 246 => fnOut = "Decimal"
        /\ fnIn.code = 7 => fnOut = "Datetime"
        /\ fnIn.code = 10 => fnOut = "Date"
        /\ fnIn.code = 6 => fnOut = "Null"

C7_Witness ==
    /\ fnIn.fn = "map_type_code" /\ fnIn.code = 8 /\ fnIn.str_mode = "bytes"
    /\ fnOut = "Int64"

\* C8: for a code that is no key of the table map_type_code returns Unknown
\* in every string mode; it raises nothing.
C8_AbsentCodes ==
    (fnOut # Unset /\ fnIn.fn = "map_type_code"
        /\ fnIn.code \notin {1, 2, 3, 4, 5, 6, 7, 8, 10, 246, 247, 248, 249, 250, 252, 253})
    => fnOut = "Unknown"

C8_Witness ==
    /\ fnIn.fn = "map_type_code" /\ fnIn.code = 254 /\ fnIn.str_mode = "str"
    /\ fnOut = "Unknown"

\* The raw result a fetch call got from fetch_raw: the cursor's columns.
ColumnsOf(t) == loc[t].cursor.description

\* C9: fetch called without a string mode types the ambiguous columns of a
\* Select as String (mode 'str') and those of a raw-text statement as Binary
\* (mode 'bytes'); a mode that is passed is the one used for every column.
C9_DefaultStrMode ==
    \A t \in Threads :
        (loc[t].entry = "fetch" /\ pc[t] \in {"frame", "returned"}) =>
            /\ Len(loc[t].schema) = Len(ColumnsOf(t))
            /\ loc[t].str_mode # None => loc[t].str_mode_ = loc[t].str_mode
            /\ \A i \in DOMAIN loc[t].schema :
                  /\ loc[t].schema[i][1] = ColumnsOf(t)[i][1]
                  /\ loc[t].schema[i][2] =
                        map_type_code(ColumnsOf(t)[i][2], loc[t].str_mode_)
                  /\ ColumnsOf(t)[i][2] \in StrTypeCodes =>
                        loc[t].schema[i][2] =
                            CASE loc[t].str_mode = "str" -> "String"
                              [] loc[t].str_mode = "bytes" -> "Binary"
                              [] loc[t].str_mode = "guess" -> "Unknown"
                              [] loc[t].stmt = "Select" -> "String"
                              [] OTHER -> "Binary"

\* fetch of a raw-text statement, no mode passed, typed page_title as Binary.
C9_Witness ==
    /\ pc[1] = "frame"
    /\ loc[1].stmt = "str" /\ loc[1].str_mode = None
    /\ loc[1].schema = << <<"page_id", "Int64">>, <<"page_title", "Binary">> >>

\* The type map_type_code gives column i of a fetch call.
MappedType(t, i) == map_type_code(ColumnsOf(t)[i][2], loc[t].str_mode_)

\* The types of the values of column i of the rows that are not None.
ValueTypes(rows, i) ==
    {python_dtype(rows[r][i][1]) : r \in {q \in DOMAIN rows : rows[q][i][1] # "NoneType"}}

\* C10 as stated: each column of fetch's table has the type map_type_code
\* gives for its code and the effective string mode, unless schema_overrides
\* names the column, and then it has the override's type.
C10_AsStated ==
    \A t \in Threads :
        (loc[t].entry = "fetch" /\ pc[t] = "returned") =>
            \A i \in DOMAIN loc[t].ret.columns :
                loc[t].ret.columns[i][2] =
                    IF ColumnsOf(t)[i][1] \in DOMAIN loc[t].overrides
                    THEN loc[t].overrides[ColumnsOf(t)[i][1]]
                    ELSE MappedType(t, i)

\* C10 amended: a column schema_overrides names has the override's type; any
\* other column has the type map_type_code gives, except where that is
\* Unknown: then the column has the type of its values that are not None,
\* the wider one when an int and a float meet (Null when it has none), and
\* never Unknown.
C10_OverrideElseMappedElseInferred ==
    \A t \in Threads :
        (loc[t].entry = "fetch" /\ pc[t] = "returned") =>
            \A i \in DOMAIN loc[t].ret.columns :
                LET name == ColumnsOf(t)[i][1]
                    dtype == loc[t].ret.columns[i][2]
                    rows == loc[t].cursor.rows
                IN  /\ loc[t].ret.columns[i][1] = name
                    /\ IF name \in DOMAIN loc[t].overrides
                       THEN dtype = loc[t].overrides[name]
                       ELSE IF MappedType(t, i) # "Unknown"
                       THEN dtype = MappedType(t, i)
                       ELSE /\ dtype # "Unknown"
                            /\ ValueTypes(rows, i) # {} => dtype \in ValueTypes(rows, i)
                            /\ \A v \in ValueTypes(rows, i) :
                                  v = dtype \/ (v = "Int64" /\ dtype = "Float64")
                            /\ ValueTypes(rows, i) = {} => dtype = "Null"

\* fetch returned a table with an overridden column whose mapped type is
\* another one, a column of its mapped type and a column of inferred type.
C10_Witness ==
    /\ pc[1] = "returned" /\ loc[1].entry = "fetch"
    /\ loc[1].ret.kind = "table"
    /\ \E i \in DOMAIN loc[1].ret.columns :
          /\ ColumnsOf(1)[i][1] \in DOMAIN loc[1].overrides
          /\ loc[1].ret.columns[i][2] # MappedType(1, i)
    /\ \E i \in DOMAIN loc[1].ret.columns :
          /\ ColumnsOf(1)[i][1] \notin DOMAIN loc[1].overrides
          /\ MappedType(1, i) = "Unknown"
          /\ loc[1].ret.columns[i][2] = "String"

\* fetch has materialized the raw result fetch_raw returned to it, or failed
\* in doing so.
Materialized(t) ==
    /\ loc[t].entry = "fetch"
    /\ pc[t] \in {"returned", "raised"}
    /\ loc[t].exc \notin {"ConnectionError", "StatementError", "CursorError",
                         "CommitError"}

\* The raw result has a row whose length is not the number of descriptors.
Ragged(t) ==
    \E r \in DOMAIN loc[t].cursor.rows :
        Len(loc[t].cursor.rows[r]) # Len(loc[t].cursor.description)

\* The raw result has two descriptors of the same name.
DuplicateNames(t) ==
    \E i, j \in DOMAIN loc[t].cursor.description :
        i # j /\ loc[t].cursor.description[i][1] = loc[t].cursor.description[j][1]

\* C11: materializing a raw result with a row whose length differs from the
\* number of column descriptors fails with an error and returns no table:
\* nothing is padded, truncated or dropped.
C11_RaggedRowsRejected ==
    \A t \in Threads :
        (Materialized(t) /\ Ragged(t)) =>
            /\ pc[t] = "raised"
            /\ loc[t].ret.kind = "raised"

\* C12: materializing a raw result of N descriptors and M rows of N values
\* (M may be 0) yields a table of exactly N columns, named as the descriptors
\* and in their order, and of exactly the M rows, in their order.
C12_ColumnsAndRowsPreserved ==
    \A t \in Threads :
        (Materialized(t) /\ ~Ragged(t)) =>
            /\ pc[t] = "returned"
            /\ loc[t].ret.kind = "table"
            /\ Len(loc[t].ret.columns) = Len(loc[t].cursor.description)
            /\ \A i \in DOMAIN loc[t].ret.columns :
                  loc[t].ret.columns[i][1] = loc[t].cursor.description[i][1]
            /\ loc[t].ret.height = Len(loc[t].cursor.rows)
            /\ loc[t].ret.rows = loc[t].cursor.rows

\* C13: materializing a raw result with two descriptors of the same name
\* succeeds, and the table holds both columns, each at its position.
C13_DuplicateNamesKept ==
    \A t \in Threads :
        (Materialized(t) /\ DuplicateNames(t) /\ ~Ragged(t)) =>
            /\ pc[t] = "returned"
            /\ loc[t].ret.kind = "table"
            /\ Len(loc[t].ret.columns) = Len(loc[t].cursor.description)
            /\ \A i \in DOMAIN loc[t].ret.columns :
                  loc[t].ret.columns[i][1] = loc[t].cursor.description[i][1]

\* The call fn of a statement builder has returned.
Returned(fn) == fnIn.fn = fn /\ pc[1] = "returned"

\* C14: for a single atomic value v, a number or a string of any length,
\* _generate_where_clause(column, v) is the equality predicate that compares
\* the column with v itself; a string is not split into its characters.
C14_AtomEquality ==
    (Returned("_generate_where_clause") /\ fnIn.value.t \in {"str", "int"}) =>
        fnOut = [column |-> fnIn.column, op |-> "=", value |-> fnIn.value]

\* The string 'Top' gave an equality predicate against 'Top'.
C14_Witness ==
    /\ Returned("_generate_where_clause")
    /\ fnIn.value = Str(<<"T", "o", "p">>)
    /\ fnOut.op = "=" /\ fnOut.value = fnIn.value

\* The distinct elements of a list.
Distinct(S) == {S.v[i] : i \in DOMAIN S.v}

\* C15: for a sequence S of two or more hashable values
\* _generate_where_clause(column, S) is an IN predicate whose value set is the
\* set of the distinct elements of S; sequences that are permutations of each
\* other, or differ in repeated elements only, give equal value sets.
C15_SequenceMembership ==
    (Returned("_generate_where_clause") /\ fnIn.value \in AtomLists
        /\ Len(fnIn.value.v) >= 2) =>
        /\ fnOut.column = fnIn.column
        /\ fnOut.op = "IN"
        /\ fnOut.value.t = "set"
        /\ fnOut.value.v = Distinct(fnIn.value)
        /\ \A S \in AtomLists :
              (Len(S.v) >= 2 /\ Distinct(S) = Distinct(fnIn.value)) =>
                  _generate_where_clause(fnIn.column, S).value = fnOut.value

\* ['Top', 'FA'] gave an IN predicate of two values, the one ['FA', 'Top']
\* gives.
C15_Witness ==
    /\ Returned("_generate_where_clause")
    /\ fnIn.value = List(<<Str(<<"T", "o", "p">>), Str(<<"F", "A">>)>>)
    /\ fnOut.op = "IN"
    /\ Cardinality(fnOut.value.v) = 2
    /\ fnOut = _generate_where_clause(fnIn.column,
                   List(<<Str(<<"F", "A">>), Str(<<"T", "o", "p">>)>>))

\* C16: for a sequence with an element that is not hashable
\* _generate_where_clause does not fail: it is the equality predicate against
\* the value as it was passed.
C16_UnhashableFallback ==
    (Returned("_generate_where_clause") /\ fnIn.value.t = "list"
        /\ \E i \in DOMAIN fnIn.value.v : fnIn.value.v[i].t = "list") =>
        fnOut = [column |-> fnIn.column, op |-> "=", value |-> fnIn.value]

\* ['FA', []] gave an equality predicate against ['FA', []].
C16_Witness ==
    /\ Returned("_generate_where_clause")
    /\ fnIn.value = List(<<Str(<<"F", "A">>), List(<<>>)>>)
    /\ fnOut.op = "=" /\ fnOut.value = fnIn.value

\* The positions of the pairs whose value is not None.
Filtering(conds) == {i \in DOMAIN conds : conds[i][2] # PyNone}

\* C17: where_clauses returns one predicate for each pair whose value is not
\* None and none for a pair whose value is None, in the order of the pairs.
C17_OnePredicatePerValue ==
    Returned("where_clauses") =>
        LET conds == fnIn.conditions
            rank(i) == Cardinality({j \in Filtering(conds) : j <= i})
        IN  /\ Len(fnOut) = Cardinality(Filtering(conds))
            /\ \A i \in Filtering(conds) :
                  /\ fnOut[rank(i)].column = conds[i][1]
                  /\ fnOut[rank(i)] = _generate_where_clause(conds[i][1], conds[i][2])

\* [(pa_class, 'FA'), (pa_importance, None)] gave one predicate, on pa_class.
C17_Witness ==
    /\ Returned("where_clauses")
    /\ fnIn.conditions = << <<"pa_class", Str(<<"F", "A">>)>>,
                            <<"pa_importance", PyNone>> >>
    /\ Len(fnOut) = 1
    /\ fnOut[1].column = "pa_class"

\* The dimensions of query_pages_by_wikiproject: column and argument.
Dimensions ==
    {<<"pap_project_title", fnIn.name>>, <<"pa_class", fnIn.quality>>,
     <<"pa_importance", fnIn.priority>>}

\* C18: the statement of query_pages_by_wikiproject filters on the project
\* title, the quality class and the importance exactly for the arguments
\* that are not None, each by the predicate of its argument; with all three
\* None it has no filter; it always has its two joins.
C18_FiltersForArguments ==
    Returned("query_pages_by_wikiproject") =>
        /\ \A d \in Dimensions :
              /\ d[2] = PyNone =>
                    \A i \in DOMAIN fnOut.where : fnOut.where[i].column # d[1]
              /\ d[2] # PyNone =>
                    /\ \E i \in DOMAIN fnOut.where :
                          fnOut.where[i] = _generate_where_clause(d[1], d[2])
                    /\ Cardinality({i \in DOMAIN fnOut.where :
                                       fnOut.where[i].column = d[1]}) = 1
        /\ (\A d \in Dimensions : d[2] = PyNone) => fnOut.where = <<>>
        /\ fnOut.select_from = "page_assessments_projects"
        /\ Len(fnOut.join) = 2
        /\ fnOut.join[1].target = "page_assessments"
        /\ fnOut.join[2].target = "page"

\* A project and two importance grades, no quality class: two filters.
C18_Witness ==
    /\ Returned("query_pages_by_wikiproject")
    /\ fnIn.name = Str(<<"F", "A">>)
    /\ fnIn.quality = PyNone
    /\ fnIn.priority = List(<<Str(<<"T", "o", "p">>), Str(<<"F", "A">>)>>)
    /\ Len(fnOut.where) = 2
    /\ fnOut.where[2].column = "pa_importance"
    /\ fnOut.where[2].op = "IN"

\* C19: Database.from_site(site, extension) returns the object cached for
\* (site.dbName(), extension), the one Database(site.dbName(), extension)
\* returns; it calls nothing on the site but dbName.
C19_FromSiteSameObject ==
    \A t \in Threads :
        fromSite[t].ret # 0 =>
            LET id == <<fromSite[t].site.wikiid, fromSite[t].extension>>
            IN  /\ instances[id] = fromSite[t].ret
                /\ \A i \in DOMAIN log : log[i][1] = id => log[i][2] = fromSite[t].ret
                /\ fromSite[t].called = <<"dbName">>

\* One caller holds the object of Database('wikidatawiki', 'termstore'), and
\* from_site(site of wikidata, 'termstore') returned it to another one.
C19_Witness ==
    \E t, u \in Threads :
        /\ fromSite[t].ret # 0
        /\ fromSite[t].site.code = "wikidata"
        /\ fromSite[t].extension = "termstore"
        /\ fromSite[u] = NoFromSite
        /\ db[u] = fromSite[t].ret
        /\ objs[db[u]].extension = "termstore"

\* The Database objects whose construction has run to its end.
Built == {k \in DOMAIN objs : objs[k].engine # 0}

\* C20: a Database's host descriptor is '<extension>.<project>' when it has
\* an extension and '<project>' when it has none; its engine's URI host is
\* the host descriptor followed by '.analytics.db.svc.wikimedia.cloud', and
\* its database is '<project>_p', whatever the extension.
C20_HostAndDatabase ==
    \A k \in Built :
        LET o == objs[k]
            e == engines[o.engine]
        IN  /\ o.extension = None => o.host = o.project
            /\ o.extension # None => o.host = o.extension \o "." \o o.project
            /\ e.host = o.host \o ".analytics.db.svc.wikimedia.cloud"
            /\ e.database = o.project \o "_p"
            /\ <<o.project, o.extension>> = <<"zhwiki", None>> =>
                  /\ o.host = "zhwiki"
                  /\ e.host = "zhwiki.analytics.db.svc.wikimedia.cloud"
                  /\ e.database = "zhwiki_p"
            /\ <<o.project, o.extension>> = <<"wikidatawiki", "termstore">> =>
                  /\ o.host = "termstore.wikidatawiki"
                  /\ e.host = "termstore.wikidatawiki.analytics.db.svc.wikimedia.cloud"
                  /\ e.database = "wikidatawiki_p"

\* Database('wikidatawiki') and Database('wikidatawiki', 'termstore') are
\* built: two hosts, one database name.
C20_Witness ==
    \E j, k \in Built :
        /\ objs[j].host = "wikidatawiki"
        /\ objs[k].host = "termstore.wikidatawiki"
        /\ engines[objs[j].engine].host # engines[objs[k].engine].host
        /\ engines[objs[j].engine].database = "wikidatawiki_p"
        /\ engines[objs[k].engine].database = "wikidatawiki_p"

\* C21: an identity that has an entry in Database._instances keeps it, bound
\* to the same object, through every later step of a construction, a
\* from_site call or a fetch.
C21_EntryPersists ==
    [][\A id \in Identities :
          instances[id] # 0 => instances'[id] = instances[id]]_vars

\* An identity was constructed, then requested again through from_site, and
\* a fetch on the object has returned: the entry is the first object.
C21_Witness ==
    /\ Len(log) >= 2
    /\ log[1][1] = log[2][1]
    /\ instances[log[1][1]] = log[1][2]
    /\ fromSite[1].ret = log[1][2]
    /\ pc[1] = "returned" /\ loc[1].entry = "fetch"

\* C23: update_section(name, text, content) returns None when text holds no
\* section of that name.
C23_NoSectionGivesNone ==
    (Returned("update_section")
        /\ get_section_content(fnIn.name, fnIn.text) = PyNone) =>
        fnOut = PyNone

\* C24: replacing a section's content and reading it gives the new content:
\* for a text with a section named n, get_section_content(n,
\* update_section(n, text, c)) is c, and AzusaTags(n).extract_content(
\* AzusaTags(n).replace_content(text, c)) is c.
C24_ReplaceThenRead ==
    /\ (Returned("update_section")
           /\ get_section_content(fnIn.name, fnIn.text) # PyNone) =>
           /\ fnOut.t = "str"
           /\ get_section_content(fnIn.name, fnOut.v) = Str(fnIn.content)
    /\ (Returned("replace_content") /\ fnIn.count = 0
           /\ extract_content(fnIn.name, fnIn.text) # PyNone) =>
           /\ fnOut.t = "str"
           /\ extract_content(fnIn.name, fnOut.v) = Str(fnIn.new)

\* The descriptors of a cursor, as fetch_raw returns them.
Descriptors(cursor) ==
    [i \in DOMAIN cursor.description |->
        [name |-> cursor.description[i][1], type_code |-> cursor.description[i][2]]]

\* C25: the steps of a fetch_raw call come in this order: the lease is
\* acquired, the transaction begun, the statement executed once, the column
\* descriptors read, the rows fetched, the transaction ended, the lease
\* released. A result is returned only after all rows were fetched under
\* the lease, with the descriptors in the cursor's order.
C25_StepOrder ==
    [][\A t \in Threads :
          LET l == loc[t]
              m == loc'[t]
          IN  \* the lease is acquired first
              /\ (l.conn = 0 /\ m.conn # 0) =>
                    (l.txn = "none" /\ l.execs = 0 /\ l.cursor = NoCursor)
              \* the transaction is begun under the lease, before execution
              /\ (l.txn = "none" /\ m.txn = "active") =>
                    (l.conn # 0 /\ l.execs = 0)
              \* the statement is executed once, in the transaction
              /\ (m.execs # l.execs /\ pc[t] \notin {"returned", "raised"}) =>
                    (l.execs = 0 /\ m.execs = 1 /\ l.txn = "active" /\ l.conn # 0)
              \* the descriptors are read after execution
              /\ (l.column_info = <<>> /\ m.column_info # <<>>) =>
                    /\ l.execs = 1 /\ l.txn = "active" /\ l.conn # 0
                    /\ m.column_info = Descriptors(l.cursor)
              \* the rows are fetched after the descriptors, under the lease
              /\ (pc[t] = "fetchall" /\ m.exc = NoExc /\ pc'[t] # pc[t]) =>
                    /\ l.column_info = Descriptors(l.cursor)
                    /\ l.txn = "active" /\ l.conn # 0
                    /\ m.rows = l.cursor.rows
              \* the transaction ends under the lease, after the rows
              /\ (l.txn = "active" /\ m.txn # "active") =>
                    /\ l.conn # 0 /\ m.conn # 0
                    /\ m.txn \in {"committed", "rolledback"}
                    /\ m.txn = "committed" <=> m.exc = NoExc
                    /\ l.exc # NoExc => m.exc = l.exc
                    /\ l.exc = NoExc =>
                          (l.rows = l.cursor.rows /\ l.column_info # <<>>)
              \* the lease is released after the transaction has ended
              /\ (l.conn # 0 /\ m.conn = 0) => l.txn # "active"
              \* a result is returned after all of it
              /\ (m.ret # l.ret /\ m.ret.kind = "raw") =>
                    /\ l.conn = 0 /\ l.txn = "committed" /\ l.execs = 1
                    /\ m.ret.rows = l.cursor.rows
                    /\ m.ret.column_info = Descriptors(l.cursor)]_vars

\* fetch_raw returned the two pages of its one execution; the transaction
\* is committed and the lease released.
C25_Witness ==
    /\ pc[1] = "returned" /\ loc[1].entry = "fetch_raw"
    /\ loc[1].ret.kind = "raw"
    /\ loc[1].ret.rows = PagesCursor.rows
    /\ loc[1].ret.column_info = Descriptors(PagesCursor)
    /\ loc[1].txn = "committed" /\ loc[1].conn = 0 /\ loc[1].execs = 1

\* The identity of the Database an object is.
IdentityOf(k) == <<objs[k].project, objs[k].extension>>

\* C26: while a fetch_raw call holds its lease, no other caller is blocked:
\* it can construct a Database and take every step of a fetch_raw call of
\* its own, from the call to the return; the create-if-absent step holds
\* nothing when it is over.
C26_NoBlocking ==
    \A t, u \in Threads :
        (t # u /\ loc[t].conn # 0) =>
            /\ (pc[u] = "idle" /\ calls < MaxCalls) => ENABLED CallDatabase(u)
            /\ (pc[u] = "idle" /\ db[u] # 0) =>
                  ENABLED FetchCall(u, {"fetch_raw"}, {"str"}, {None}, FewOverrides)
            /\ pc[u] = "new" => ENABLED New(u)
            /\ pc[u] = "init" => ENABLED InitAttributes(u)
            /\ pc[u] = "init_engine" => ENABLED InitEngine(u)
            /\ pc[u] = "store_engine" => ENABLED StoreEngine(u)
            /\ pc[u] = "read_engine" => ENABLED ReadEngine(u)
            /\ pc[u] = "connect" => ENABLED Connect(u)
            /\ pc[u] = "begin" => ENABLED Begin(u)
            /\ pc[u] = "execute" => ENABLED Execute(u, FewCursors)
            /\ pc[u] = "describe" => ENABLED Describe(u)
            /\ pc[u] = "fetchall" => ENABLED FetchAll(u)
            /\ pc[u] = "exit_txn" => ENABLED ExitTxn(u)
            /\ pc[u] = "exit_conn" => ENABLED ExitConn(u)
            /\ pc[u] = "raw_exit" => ENABLED RawExit(u)

\* A caller is executing its statement under its lease, and another caller,
\* who constructed a Database of another identity meanwhile or before, has a
\* result of that one.
C26_Witness ==
    \E t, u \in Threads :
        /\ pc[t] = "execute" /\ loc[t].conn # 0
        /\ pc[u] = "returned" /\ loc[u].ret.kind = "raw"
        /\ IdentityOf(self[t]) # IdentityOf(self[u])
        /\ calls > NumThreads
        /\ log[Len(log)] = <<IdentityOf(self[u]), self[u]>>

\* The host descriptor of each identity.
HostOf(id) ==
    CASE id = <<"zhwiki", None>> -> "zhwiki"
      [] id = <<"wikidatawiki", None>> -> "wikidatawiki"
      [] id = <<"wikidatawiki", "termstore">> -> "termstore.wikidatawiki"

\* No caller is inside the constructor call of object k.
Completed(k) ==
    \A t \in Threads :
        self[t] = k => pc[t] \notin {"init", "init_engine", "store_engine"}

\* C27: when the Database(...) and from_site(...) calls on a cached object
\* are completed, the object stored under (p, e) has project p, extension e,
\* the host descriptor of (p, e) and an engine built for that host and
\* project p, however often and in whatever order identities were
\* constructed.
C27_EntryMatchesKey ==
    \A id \in Identities :
        (instances[id] # 0 /\ Completed(instances[id])) =>
            LET o == objs[instances[id]]
            IN  /\ o.project = id[1]
                /\ o.extension = id[2]
                /\ o.host = HostOf(id)
                /\ o.engine \in DOMAIN engines
                /\ engines[o.engine].host =
                      HostOf(id) \o ".analytics.db.svc.wikimedia.cloud"
                /\ engines[o.engine].database = id[1] \o "_p"

\* Database('wikidatawiki'), then the termstore of the same project through
\* from_site or directly, then Database('wikidatawiki') again, all completed.
C27_Witness ==
    /\ \A t \in Threads : pc[t] = "idle"
    /\ Len(log) = 3
    /\ log[1][1] = <<"wikidatawiki", None>>
    /\ log[2][1] = <<"wikidatawiki", "termstore">>
    /\ log[3][1] = <<"wikidatawiki", None>>
    /\ objs[instances[log[3][1]]].host = "wikidatawiki"
    /\ objs[instances[log[2][1]]].host = "termstore.wikidatawiki"

\* C28: two different identities never name the same object, in the cache
\* and among the objects that constructions returned, also when the two
\* identities have the same project and differ in the extension only.
C28_DistinctIdentitiesDistinctObjects ==
    /\ \A id1, id2 \in Identities :
           (id1 # id2 /\ instances[id1] # 0 /\ instances[id2] # 0) =>
               instances[id1] # instances[id2]
    /\ \A i, j \in DOMAIN log : log[i][1] # log[j][1] => log[i][2] # log[j][2]

\* 'wikidatawiki' was constructed without an extension and with 'termstore',
\* and both constructions completed.
C28_Witness ==
    /\ instances[<<"wikidatawiki", None>>] # 0
    /\ instances[<<"wikidatawiki", "termstore">>] # 0
    /\ \E i, j \in DOMAIN log :
           /\ log[i][1] = <<"wikidatawiki", None>>
           /\ log[j][1] = <<"wikidatawiki", "termstore">>
           /\ log[i][2] \in Built /\ log[j][2] \in Built

\* The value is the empty list.
EmptySequence(val) == val.t = "list" /\ Len(val.v) = 0

\* column IN (), the membership predicate with no member.
InNothing(column) == [column |-> column, op |-> "IN", value |-> [t |-> "set", v |-> {}]]

\* C29: an empty sequence filters: _generate_where_clause(column, []) is the
\* membership predicate on the column with an empty set of values,
\* where_clauses gives that predicate for every pair whose value is the empty
\* sequence, and the statement of query_pages_by_wikiproject has that
\* predicate on the column of every argument that is the empty sequence.
C29_EmptySequenceFilters ==
    /\ (Returned("_generate_where_clause") /\ EmptySequence(fnIn.value)) =>
           fnOut = InNothing(fnIn.column)
    /\ Returned("where_clauses") =>
           LET conds == fnIn.conditions
               rank(i) == Cardinality({j \in Filtering(conds) : j <= i})
           IN  \A i \in DOMAIN conds :
                   EmptySequence(conds[i][2]) =>
                       /\ rank(i) \in DOMAIN fnOut
                       /\ fnOut[rank(i)] = InNothing(conds[i][1])
    /\ Returned("query_pages_by_wikiproject") =>
           \A d \in Dimensions :
               EmptySequence(d[2]) =>
                   \E i \in DOMAIN fnOut.where : fnOut.where[i] = InNothing(d[1])

\* A project, an empty sequence of quality classes and no importance: the
\* statement filters on the project title and, by IN (), on the class.
C29_Witness ==
    /\ Returned("query_pages_by_wikiproject")
    /\ fnIn.name = Str(<<"F", "A">>)
    /\ fnIn.quality = List(<<>>)
    /\ fnIn.priority = PyNone
    /\ Len(fnOut.where) = 2
    /\ fnOut.where[2] = InNothing("pa_class")

\* The positions of a caller inside fetch_raw and fetch.
InFetch ==
    {"read_engine", "connect", "begin", "execute", "describe", "fetchall", "exit_txn",
     "exit_conn", "raw_exit", "schema", "frame"}

\* C30: no step of fetch_raw or fetch, from its call to its return or to the
\* exception leaving it, changes the registry: the identities cached, the
\* object of each identity, the attributes project, extension, host and
\* engine of every object, the called one among them, and the engines.
C30_FetchLeavesRegistry ==
    [][\A t \in Threads :
          (pc[t] \in InFetch \/ pc'[t] \in InFetch) =>
              /\ instances' = instances
              /\ objs' = objs
              /\ engines' = engines]_vars

\* Two identities are cached and a call on the object of one of them has
\* failed after it had leased a connection; the object is still cached under
\* its identity, with its engine.
C30_Witness ==
    /\ pc[1] = "raised"
    /\ loc[1].exc = "StatementError"
    /\ loc[1].execs = 1
    /\ Cardinality({id \in Identities : instances[id] # 0}) = 2
    /\ \E id \in Identities : instances[id] = self[1]
    /\ self[1] \in Built

====
